---- MODULE Spec2Model ----
(***************************************************************************)
(* Model of the JWT issuance / refresh / blacklist flow of the family map  *)
(* backend (auth_api) and of the user queries it protects (users.schema),  *)
(* as served by the graphql endpoint of family_map/urls.py.                *)
(*                                                                         *)
(* A JWT is modelled by its payload (token type, jti, user id, exp).  A    *)
(* string decodes successfully exactly when the server signed it, that is  *)
(* when it is a member of `issued'; any other string is InvalidToken.      *)
(* Optional values are sequences: <<>> is None and <<x>> is a value.       *)
(***************************************************************************)
EXTENDS Integers, Sequences, FiniteSets, TLC

\* ---------------------------------------------------------------- bounds
\* last tick of the clock
MaxTime == 2
\* number of token ids (jti) the server may hand out
MaxJti == 4
\* lifetimes of the two token types, in clock ticks
RefreshLifetime == 2
AccessLifetime == 1

\* ------------------------------------------------------------- constants
None == <<>>
Some(x) == <<x>>

\* pk of AnonymousUser is None; 0 is never the id of a stored user
AnonymousUser == 0

ADMIN == "admin"
FREEMIUM_USER == "freemium_user"

\* user names are sequences of characters
testuser == <<"t", "e", "s", "t">>
adminuser == <<"a", "d", "m">>
nonexistentuser == <<"n", "o", "n", "e">>

Usernames == {testuser, adminuser, nonexistentuser}
Passwords == {"testpassword123", "adminpassword123", "wrongpassword"}

\* the string 'invalid.token.here': not signed by the server
InvalidToken == [typ |-> "garbage", jti |-> 0, uid |-> 0, exp |-> 0]

VARIABLES
    users,        \* auth_user rows: id -> [username, email, password, is_active]
    profiles,     \* users_userprofile rows: user id -> [role]
    issued,       \* every token the server has signed
    outstanding,  \* token_blacklist_outstandingtoken rows: [jti, user]
    blacklisted,  \* token_blacklist_blacklistedtoken rows, by jti
    nextJti,      \* next fresh token id
    now,          \* the clock
    settings,     \* django settings: [rotate]    SIMPLE_JWT['ROTATE_REFRESH_TOKENS'],
                  \*   [blacklist] token_blacklist is in INSTALLED_APPS
    last,         \* the last GraphQL operation and its response
    places,       \* place_place rows: id -> [name, created_at, updated_at]
    mapbox,       \* the geocoding service: [api_key] MAPBOX_API_KEY is set,
                  \*   [answer] what a request to the Search Box API meets
    scraped_posts,   \* scraping_scrapedpost rows: id -> [third_party_id, original_created_at]
    scraped_places,  \* scraping_scrapedplace rows: id -> [name, processed, post]
    presented        \* the places review_view has shown the reviewer, in order

vars == <<users, profiles, issued, outstanding, blacklisted, nextJti, now, settings, last,
          places, mapbox, scraped_posts, scraped_places, presented>>

\* -------------------------------------------------------------- responses
NoCall ==
    [op |-> "none", username |-> <<>>, password |-> "", token |-> InvalidToken,
     request |-> [authorization |-> None, user |-> AnonymousUser], id |-> 0,
     success |-> FALSE, message |-> <<"", "">>, tokens |-> None, user |-> None,
     errors |-> <<>>, data |-> None, list |-> None,
     email |-> <<>>, role |-> None,
     identifier |-> [isint |-> FALSE, int |-> 0, str |-> <<>>],
     place_name |-> None, city |-> None,
     point |-> None, response_data |-> None, raised |-> "",
     status |-> 0, location |-> "", body |-> None, counts |-> None]

\* a deployment without a Mapbox key
NoMapbox ==
    [api_key |-> FALSE,
     answer |-> [kind |-> "ConnectionError", data |-> [haskey |-> FALSE, features |-> <<>>]]]

\* ------------------------------------------------- django.contrib.auth
UserIds == DOMAIN users

\* User.objects.get(username=...): the ids of the rows with that username
UsersNamed(username) == {u \in UserIds : users[u].username = username}

\* authenticate() that skips the password check
authenticateNoPassword(username, password) ==
    LET ok == {u \in UsersNamed(username) : users[u].is_active}
    IN  IF ok = {} THEN AnonymousUser ELSE CHOOSE u \in ok : TRUE

\* authenticate() that lets inactive users through (AllowAllUsersModelBackend)
authenticateAllowInactive(username, password) ==
    LET ok == {u \in UsersNamed(username) : users[u].password = password}
    IN  IF ok = {} THEN AnonymousUser ELSE CHOOSE u \in ok : TRUE

\* authenticate() with the ModelBackend: the user whose username matches,
\* whose password checks and who may authenticate (is_active); else None
authenticate(username, password) ==
    LET ok == {u \in UsersNamed(username) :
                  users[u].password = password /\ users[u].is_active}
    IN  IF ok = {} THEN AnonymousUser ELSE CHOOSE u \in ok : TRUE

\* ------------------------------------------- rest_framework_simplejwt
\* Token.__init__ that does not verify the token type claim
TokenErrorNoTypeCheck(tok, typ) ==
    IF tok \notin issued \/ tok.exp <= now THEN "Token is invalid or expired"
    ELSE IF typ = "refresh" /\ settings.blacklist /\ tok.jti \in blacklisted
         THEN "Token is blacklisted"
    ELSE ""

\* Token.__init__(token): decode (signature, exp), then verify(), which
\* for a refresh token starts with BlacklistMixin.check_blacklist when the
\* blacklist app is installed.  The result is the text of the TokenError
\* raised, "" when none is raised.
TokenError(tok, typ) ==
    IF tok \notin issued \/ tok.exp <= now THEN "Token is invalid or expired"
    ELSE IF typ = "refresh" /\ settings.blacklist /\ tok.jti \in blacklisted
         THEN "Token is blacklisted"
    ELSE IF tok.typ # typ THEN "Token has wrong type"
    ELSE ""

\* a RefreshToken whose verify() does not consult the blacklist
RefreshTokenErrorNoBlacklist(tok) ==
    IF tok \notin issued \/ tok.exp <= now THEN "Token is invalid or expired"
    ELSE IF tok.typ # "refresh" THEN "Token has wrong type"
    ELSE ""

\* the refresh token parsed with the AccessToken class
RefreshTokenErrorAsAccess(tok) == TokenError(tok, "access")

\* RefreshToken(input.refresh_token)
RefreshTokenError(tok) == TokenError(tok, "refresh")

\* a new token of the given type for a user, signed at the current time
NewToken(typ, jti, uid) ==
    [typ |-> typ, jti |-> jti, uid |-> uid,
     exp |-> now + (IF typ = "refresh" THEN RefreshLifetime ELSE AccessLifetime)]

\* ---------------------------------------------------- auth_api mutations
\* a LoginResult that leaves out the user on success
LoginResultNoUser(user) ==
    IF user = AnonymousUser \/ ~users[user].is_active THEN
        [success |-> FALSE, message |-> <<"Invalid username or password", "">>,
         tokens |-> None, user |-> None]
    ELSE
        [success |-> TRUE, message |-> <<"Login successful", "">>,
         tokens |-> Some([access |-> NewToken("access", nextJti + 1, user),
                          refresh |-> NewToken("refresh", nextJti, user)]),
         user |-> None]

\* the LoginResult that Mutation.login builds for the authenticated user
LoginResult(user) ==
    IF user = AnonymousUser THEN
        [success |-> FALSE, message |-> <<"Invalid username or password", "">>,
         tokens |-> None, user |-> None]
    ELSE IF ~users[user].is_active THEN
        [success |-> FALSE, message |-> <<"User account is disabled", "">>,
         tokens |-> None, user |-> None]
    ELSE
        [success |-> TRUE, message |-> <<"Login successful", "">>,
         tokens |-> Some([access |-> NewToken("access", nextJti + 1, user),
                          refresh |-> NewToken("refresh", nextJti, user)]),
         user |-> Some([id |-> user, username |-> users[user].username])]

\* RefreshToken.for_user: with the blacklist app, record the new token
OutstandingAfterForUser(tok, user) ==
    IF settings.blacklist THEN outstanding \cup {[jti |-> tok.jti, user |-> user]}
    ELSE outstanding

\* Mutation.login
login(username, password) ==
    LET user == authenticate(username, password)
        res == LoginResult(user)
    IN  /\ res.success => nextJti + 1 <= MaxJti
        /\ IF res.success
           THEN /\ issued' = issued \cup {res.tokens[1].access, res.tokens[1].refresh}
                /\ outstanding' = OutstandingAfterForUser(res.tokens[1].refresh, user)
                /\ nextJti' = nextJti + 2
           ELSE UNCHANGED <<issued, outstanding, nextJti>>
        /\ last' = [NoCall EXCEPT !.op = "login", !.username = username,
                       !.password = password, !.success = res.success,
                       !.message = res.message, !.tokens = res.tokens,
                       !.user = res.user]
        /\ UNCHANGED <<users, profiles, blacklisted, now, settings, places, mapbox, scraped_posts, scraped_places, presented>>

\* Mutation.refresh_token
refresh_token(tok) ==
    LET err == RefreshTokenError(tok)
        access == NewToken("access", nextJti, tok.uid)
        refresh == IF settings.rotate THEN NewToken("refresh", nextJti + 1, tok.uid) ELSE tok
    IN  /\ err = "" => nextJti + (IF settings.rotate THEN 1 ELSE 0) <= MaxJti
        /\ IF err = ""
           THEN /\ issued' = issued \cup {access, refresh}
                /\ nextJti' = nextJti + (IF settings.rotate THEN 2 ELSE 1)
                /\ last' = [NoCall EXCEPT !.op = "refreshToken", !.token = tok,
                               !.success = TRUE,
                               !.message = <<"Token refreshed successfully", "">>,
                               !.tokens = Some([access |-> access, refresh |-> refresh])]
           ELSE /\ UNCHANGED <<issued, nextJti>>
                /\ last' = [NoCall EXCEPT !.op = "refreshToken", !.token = tok,
                               !.success = FALSE,
                               !.message = <<"Token refresh failed", err>>]
        /\ UNCHANGED <<users, profiles, outstanding, blacklisted, now, settings, places, mapbox, scraped_posts, scraped_places, presented>>

\* BlacklistMixin.blacklist: get_or_create the outstanding row of the jti
OutstandingAfterBlacklist(tok) ==
    IF \E o \in outstanding : o.jti = tok.jti THEN outstanding
    ELSE outstanding \cup {[jti |-> tok.jti, user |-> AnonymousUser]}

\* Mutation.logout
logout(tok) ==
    LET parse == RefreshTokenError(tok)
        err == IF parse = "" /\ ~settings.blacklist
               THEN "'RefreshToken' object has no attribute 'blacklist'"
               ELSE parse
    IN  /\ IF err = ""
           THEN /\ outstanding' = OutstandingAfterBlacklist(tok)
                /\ blacklisted' = blacklisted \cup {tok.jti}
                /\ last' = [NoCall EXCEPT !.op = "logout", !.token = tok,
                               !.success = TRUE,
                               !.message = <<"Logout successful", "">>]
           ELSE /\ UNCHANGED <<outstanding, blacklisted>>
                /\ last' = [NoCall EXCEPT !.op = "logout", !.token = tok,
                               !.success = FALSE,
                               !.message = <<"Logout failed", err>>]
        /\ UNCHANGED <<users, profiles, issued, nextJti, now, settings, places, mapbox, scraped_posts, scraped_places, presented>>

\* ------------------------------------------------------ graphql endpoint
\* urlpatterns: GraphQLView.as_view(schema=schema).  The view's own
\* get_context is used, so the context carries the request as Django's
\* middleware left it and the Authorization header is not consulted.
get_context(request) == [request |-> request]

\* UserProfile.is_admin
is_admin(profile) == profile.role = ADMIN

\* an IsAdmin that lets every authenticated user through
IsAdminAnyAuthenticated(context) == context.request.user # AnonymousUser

\* users.schema.IsAdmin.has_permission
IsAdmin(context) ==
    LET user == context.request.user
    IN  IF user = AnonymousUser THEN FALSE
        ELSE user \in DOMAIN profiles /\ is_admin(profiles[user])

IsAdminMessage == "User is not authorized to access this resource"

\* auth_api.graphql.permissions.IsAuthenticated.has_permission
IsAuthenticated(context) == context.request.user # AnonymousUser

IsAuthenticatedMessage == "User is not authenticated"

\* Query.me
me(request) ==
    LET user == get_context(request).request.user
    IN  /\ last' = [NoCall EXCEPT !.op = "me", !.request = request,
                       !.data = IF user # AnonymousUser
                                THEN Some(users[user].username) ELSE None]
        /\ UNCHANGED <<users, profiles, issued, outstanding, blacklisted,
                       nextJti, now, settings, places, mapbox, scraped_posts, scraped_places, presented>>

\* Query.user
user(request, id) ==
    /\ last' = IF ~IsAdmin(get_context(request))
               THEN [NoCall EXCEPT !.op = "user", !.request = request, !.id = id,
                        !.errors = <<IsAdminMessage>>]
               ELSE [NoCall EXCEPT !.op = "user", !.request = request, !.id = id,
                        !.data = IF id \in UserIds
                                 THEN Some(users[id].username) ELSE None]
    /\ UNCHANGED <<users, profiles, issued, outstanding, blacklisted,
                   nextJti, now, settings, places, mapbox, scraped_posts, scraped_places, presented>>

\* str.lower() on the characters that occur in the model
Lower(c) == IF c = "T" THEN "t" ELSE IF c = "A" THEN "a" ELSE c

\* the username__icontains lookup
IContains(s, sub) ==
    \E i \in 1..(Len(s) - Len(sub) + 1) :
        \A k \in 1..Len(sub) : Lower(s[i + k - 1]) = Lower(sub[k])

\* the queryset Query.users returns, as the set of usernames in it
UsersQueryset(username, role) ==
    LET all == UserIds
        byName == IF username # None /\ username[1] # <<>>
                  THEN {u \in all : IContains(users[u].username, username[1])}
                  ELSE all
        byRole == IF role # None /\ role[1] # ""
                  THEN {u \in byName : u \in DOMAIN profiles /\ profiles[u].role = role[1]}
                  ELSE byName
    IN  {users[u].username : u \in byRole}

\* Query.users
users_query(request, username, role) ==
    /\ last' = IF ~IsAdmin(get_context(request))
               THEN [NoCall EXCEPT !.op = "users", !.request = request,
                        !.errors = <<IsAdminMessage>>]
               ELSE [NoCall EXCEPT !.op = "users", !.request = request,
                        !.list = Some(UsersQueryset(username, role))]
    /\ UNCHANGED <<users, profiles, issued, outstanding, blacklisted,
                   nextJti, now, settings, places, mapbox, scraped_posts, scraped_places, presented>>

\* ------------------------------------------------------------ environment
\* time passes
Tick ==
    /\ now < MaxTime
    /\ now' = now + 1
    /\ last' = NoCall
    /\ UNCHANGED <<users, profiles, issued, outstanding, blacklisted, nextJti, settings, places, mapbox, scraped_posts, scraped_places, presented>>

\* UserAdmin: a staff member edits the "active" flag of a user
UserAdminSave(u, active) ==
    /\ u \in UserIds
    /\ users[u].is_active # active
    /\ users' = [users EXCEPT ![u].is_active = active]
    /\ last' = NoCall
    /\ UNCHANGED <<profiles, issued, outstanding, blacklisted, nextJti, now, settings, places, mapbox, scraped_posts, scraped_places, presented>>

\* ------------------------------------------------------------------ inputs
\* what a client can put in the refreshToken field
TokenStrings == issued \cup {InvalidToken}

\* request.user as Django's session authentication leaves it
SessionUsers == {AnonymousUser} \cup {u \in UserIds : users[u].is_active}

AuthorizationHeaders ==
    {None} \cup {Some([scheme |-> "Bearer", token |-> t]) : t \in TokenStrings}

Requests == [authorization : AuthorizationHeaders, user : SessionUsers]

UserIdInputs == 1..3
UsernameFilters == {None, Some(<<"T", "e">>)}
RoleFilters == {None, Some(ADMIN)}

\* ------------------------------------------------------------ specification
\* the database holds a regular user and an admin created by
\* create_admin_user; no token has been issued yet
Init ==
    /\ users = (1 :> [username |-> testuser, email |-> <<"test", "example.com">>,
                      password |-> "testpassword123", is_active |-> TRUE]) @@
               (2 :> [username |-> adminuser, email |-> <<"admin", "example.com">>,
                      password |-> "adminpassword123", is_active |-> TRUE])
    /\ profiles = (1 :> [role |-> FREEMIUM_USER]) @@ (2 :> [role |-> ADMIN])
    /\ issued = {}
    /\ outstanding = {}
    /\ blacklisted = {}
    /\ nextJti = 1
    /\ now = 0
    /\ settings \in [rotate : BOOLEAN, blacklist : BOOLEAN]
    /\ last = NoCall
    /\ scraped_posts = <<>>
    /\ scraped_places = <<>>
    /\ presented = <<>>
    /\ places = <<>>
    /\ mapbox = NoMapbox

\* the token flow: login, refresh and logout against a changing user table
Next ==
    \/ \E username \in Usernames, password \in Passwords : login(username, password)
    \/ \E tok \in TokenStrings : refresh_token(tok)
    \/ \E tok \in TokenStrings : logout(tok)
    \/ Tick
    \/ \E u \in UserIds, active \in BOOLEAN : UserAdminSave(u, active)

Spec == Init /\ [][Next]_vars

\* the queries of users.schema, sent by clients that hold tokens from login
NextApi ==
    \/ \E username \in Usernames, password \in Passwords : login(username, password)
    \/ \E request \in Requests : me(request)
    \/ \E request \in Requests, id \in UserIdInputs : user(request, id)
    \/ \E request \in Requests, username \in UsernameFilters, role \in RoleFilters :
           users_query(request, username, role)
    \/ Tick
    \/ \E u \in UserIds, active \in BOOLEAN : UserAdminSave(u, active)

SpecApi == Init /\ [][NextApi]_vars

TypeOK ==
    /\ issued \subseteq [typ : {"access", "refresh"}, jti : 1..MaxJti,
                         uid : UserIds, exp : 0..(MaxTime + RefreshLifetime + AccessLifetime)]
    /\ blacklisted \subseteq 1..MaxJti
    /\ nextJti \in 1..(MaxJti + 1)
    /\ now \in 0..MaxTime

\* ====================================================================
\* Properties of the token flow (specification Spec)
\* ====================================================================

\* the stored user, if any, whose username and password are the submitted ones
Matching(username, password) ==
    {u \in UserIds : users[u].username = username /\ users[u].password = password}

\* tok is a refresh token the server signed, neither expired nor blacklisted
UsableRefresh(tok) ==
    /\ tok \in issued
    /\ tok.typ = "refresh"
    /\ now < tok.exp
    /\ tok.jti \notin blacklisted

\* C1: once logout has succeeded for a refresh token R, R is on the
\* blacklist, nothing is ever taken off the blacklist, and every
\* refreshToken call that presents a blacklisted token returns
\* success=false; so R never becomes usable again, whatever logins,
\* refreshes and logouts are interleaved.
C1_BlacklistedNeverRefreshes ==
    [][ /\ (last'.op = "logout" /\ last'.success) => last'.token.jti \in blacklisted'
        /\ blacklisted \subseteq blacklisted'
        /\ (last'.op = "refreshToken" /\ last'.token.jti \in blacklisted)
               => ~last'.success ]_vars

\* a refresh of an unexpired token was refused because the token is blacklisted
C1_Witness ==
    /\ last.op = "refreshToken"
    /\ last.token.jti \in blacklisted
    /\ now < last.token.exp
    /\ ~last.success
    /\ last.message = <<"Token refresh failed", "Token is blacklisted">>

\* C2: login with the username and the correct password of an existing
\* active user returns success=true, message 'Login successful', an access
\* token, a refresh token and the user with the submitted username.
C2_LoginSucceeds ==
    (/\ last.op = "login"
     /\ \E u \in Matching(last.username, last.password) : users[u].is_active)
    => /\ last.success
       /\ last.message = <<"Login successful", "">>
       /\ last.tokens # None
       /\ last.tokens[1].access \in issued /\ last.tokens[1].access.typ = "access"
       /\ last.tokens[1].refresh \in issued /\ last.tokens[1].refresh.typ = "refresh"
       /\ last.user # None
       /\ last.user[1].username = last.username
       /\ last.errors = <<>>

\* the admin has logged in with the right password
C2_Witness ==
    /\ last.op = "login"
    /\ last.username = adminuser
    /\ last.password = "adminpassword123"
    /\ last.success
    /\ last.tokens # None

\* C3: login with a username no user has, or with a wrong password for an
\* existing user, returns success=false, message 'Invalid username or
\* password' and tokens=null, without a GraphQL error, and issues no token.
C3_InvalidCredentials ==
    [][ (/\ last'.op = "login"
         /\ Matching(last'.username, last'.password) = {})
        => /\ ~last'.success
           /\ last'.message = <<"Invalid username or password", "">>
           /\ last'.tokens = None
           /\ last'.errors = <<>>
           /\ issued' = issued
           /\ outstanding' = outstanding ]_vars

\* an active user's login was refused for a wrong password
C3_Witness ==
    /\ last.op = "login"
    /\ \E u \in UsersNamed(last.username) :
           users[u].is_active /\ users[u].password # last.password
    /\ ~last.success
    /\ last.tokens = None

\* C4: login with the correct username and password of a user whose
\* is_active flag is false returns success=false, message 'Invalid username
\* or password' and tokens=null, and issues no token.
C4_InactiveUser ==
    [][ (/\ last'.op = "login"
         /\ \E u \in Matching(last'.username, last'.password) : ~users[u].is_active)
        => /\ ~last'.success
           /\ last'.message = <<"Invalid username or password", "">>
           /\ last'.tokens = None
           /\ issued' = issued
           /\ outstanding' = outstanding ]_vars

\* a deactivated user has tried to log in with the right password
C4_Witness ==
    /\ last.op = "login"
    /\ \E u \in Matching(last.username, last.password) : ~users[u].is_active
    /\ ~last.success

\* C9: refreshToken presented with a refresh token that the server issued
\* (by login, or by an earlier refresh) and that is neither blacklisted nor
\* expired returns success=true with an access token and a refresh token.
C9_RefreshSucceeds ==
    (/\ last.op = "refreshToken"
     /\ UsableRefresh(last.token))
    => /\ last.success
       /\ last.tokens # None
       /\ last.tokens[1].access \in issued /\ last.tokens[1].access.typ = "access"
       /\ last.tokens[1].refresh \in issued /\ last.tokens[1].refresh.typ = "refresh"

\* a refresh token that login issued to a user has been refreshed
C9_Witness ==
    /\ last.op = "refreshToken"
    /\ UsableRefresh(last.token)
    /\ \E o \in outstanding : o.jti = last.token.jti /\ o.user = last.token.uid
    /\ last.success

\* C10: refreshToken and logout called with a string that is not a valid
\* refresh token return success=false with a message that starts 'Token
\* refresh failed' and 'Logout failed' respectively; the response has no
\* GraphQL error, no token is issued and the blacklist is unchanged.
C10_InvalidRefreshToken ==
    [][ (/\ last'.op \in {"refreshToken", "logout"}
         /\ ~UsableRefresh(last'.token))
        => /\ ~last'.success
           /\ last'.message[1] = (IF last'.op = "logout" THEN "Logout failed"
                                  ELSE "Token refresh failed")
           /\ last'.message[2] # ""
           /\ last'.tokens = None
           /\ last'.errors = <<>>
           /\ issued' = issued
           /\ blacklisted' = blacklisted
           /\ outstanding' = outstanding ]_vars

\* logout was called with the string 'invalid.token.here'
C10_Witness ==
    /\ last.op = "logout"
    /\ last.token = InvalidToken
    /\ ~last.success
    /\ last.message = <<"Logout failed", "Token is invalid or expired">>

\* ====================================================================
\* Properties of the queries (specification SpecApi)
\* ====================================================================

\* the request carries 'Authorization: Bearer <t>' where t is an access
\* token the server signed for a stored, active user and that has not expired
BearsAccessTokenOf(request, u) ==
    /\ request.authorization # None
    /\ request.authorization[1].scheme = "Bearer"
    /\ LET t == request.authorization[1].token
       IN  /\ t \in issued
           /\ t.typ = "access"
           /\ now < t.exp
           /\ t.uid = u
    /\ u \in UserIds
    /\ users[u].is_active

\* the request carries no Authorization header, or one whose token is not
\* a valid access token
BearsNoAccessToken(request) ==
    \/ request.authorization = None
    \/ LET t == request.authorization[1].token
       IN  ~(t \in issued /\ t.typ = "access" /\ now < t.exp)

\* C5: the me query sent without an Authorization header, or with a bearer
\* token that is not a valid access token, produces a GraphQL error whose
\* message is 'User is not authenticated'.
C5_MeRequiresAuthentication ==
    (/\ last.op = "me"
     /\ last.request.user = AnonymousUser
     /\ BearsNoAccessToken(last.request))
    => \E i \in 1..Len(last.errors) : last.errors[i] = IsAuthenticatedMessage

\* C6: the me query sent with 'Authorization: Bearer <access token>', the
\* access token being one that a successful login of user U returned,
\* returns U without errors.
C6_MeReturnsTokenUser ==
    \A u \in UserIds :
        (/\ last.op = "me"
         /\ last.request.user = AnonymousUser
         /\ BearsAccessTokenOf(last.request, u))
        => /\ last.errors = <<>>
           /\ last.data = Some(users[u].username)

\* the user on whose behalf a request is made: the session's user, else
\* the user of a valid bearer access token, else nobody
Requester(request) ==
    IF request.user # AnonymousUser THEN request.user
    ELSE IF \E u \in UserIds : BearsAccessTokenOf(request, u)
         THEN request.authorization[1].token.uid
         ELSE AnonymousUser

\* C7: the user(id) and users queries, requested by an anonymous client or
\* by an authenticated user whose role is not admin, return the GraphQL
\* error 'User is not authorized to access this resource' and no user data.
C7_AdminOnlyQueries ==
    (/\ last.op \in {"user", "users"}
     /\ LET r == Requester(last.request)
        IN  r = AnonymousUser \/ profiles[r].role # ADMIN)
    => /\ last.errors = <<IsAdminMessage>>
       /\ last.data = None
       /\ last.list = None

\* an authenticated user who is not admin has asked for user(id) of a stored user
C7_Witness ==
    /\ last.op = "user"
    /\ last.id \in UserIds
    /\ last.request.user # AnonymousUser
    /\ profiles[last.request.user].role = FREEMIUM_USER
    /\ last.errors = <<IsAdminMessage>>

\* C8: the user(id) and users queries, requested with the access token
\* obtained by logging in as a user whose role is admin, succeed without
\* errors, and user(id) returns the user with that id.
C8_AdminTokenQueries ==
    \A u \in UserIds :
        (/\ last.op \in {"user", "users"}
         /\ last.request.user = AnonymousUser
         /\ BearsAccessTokenOf(last.request, u)
         /\ profiles[u].role = ADMIN)
        => /\ last.errors = <<>>
           /\ last.op = "users" => last.list # None
           /\ (last.op = "user" /\ last.id \in UserIds)
                  => last.data = Some(users[last.id].username)

\* ====================================================================
\* User management: users.models, users.schema.Mutation, users.utils
\* ====================================================================

\* largest id the auth_user sequence hands out
MaxUsers == 2

\* an e-mail address is <<local part, domain>>
LowerDomain(d) == IF d = "EXAMPLE.COM" THEN "example.com" ELSE d

\* BaseUserManager.normalize_email: the domain part is lower-cased
normalize_email(email) ==
    IF email = <<>> THEN email ELSE <<email[1], LowerDomain(email[2])>>

\* the id the database gives to the next auth_user row
NextUserId == IF UserIds = {} THEN 1 ELSE 1 + CHOOSE m \in UserIds : \A u \in UserIds : u <= m

\* a post_save handler that creates no profile
create_or_update_user_profile_never(instance, created) == profiles

\* post_save receiver create_or_update_user_profile: the profile table after
\* the signal for a saved User; a new profile has the default role
create_or_update_user_profile(instance, created) ==
    IF created THEN (instance :> [role |-> FREEMIUM_USER]) @@ profiles
    ELSE profiles

\* a create_user that accepts every username
CreateUserErrorNone(username) == ""

\* User.objects.create_user: the text of the exception it raises, "" if none
CreateUserError(username) ==
    IF username = <<>> THEN "The given username must be set"
    ELSE IF UsersNamed(username) # {} THEN "duplicate key value violates unique constraint"
    ELSE ""

\* the auth_user table after a successful create_user
UsersAfterCreate(username, email, password) ==
    (NextUserId :> [username |-> username, email |-> normalize_email(email),
                    password |-> password, is_active |-> TRUE]) @@ users

\* User.objects.create_user(...), then the post_save signal
create_user(username, email, password) ==
    LET err == CreateUserError(username)
    IN  /\ err = "" => NextUserId <= MaxUsers
        /\ IF err = ""
           THEN /\ users' = UsersAfterCreate(username, email, password)
                /\ profiles' = create_or_update_user_profile(NextUserId, TRUE)
                /\ last' = [NoCall EXCEPT !.op = "create_user", !.username = username,
                               !.email = email, !.success = TRUE,
                               !.user = Some([id |-> NextUserId, username |-> username])]
           ELSE /\ UNCHANGED <<users, profiles>>
                /\ last' = [NoCall EXCEPT !.op = "create_user", !.username = username,
                               !.email = email, !.errors = <<err>>]
        /\ UNCHANGED <<issued, outstanding, blacklisted, nextJti, now, settings, places, mapbox, scraped_posts, scraped_places, presented>>

\* user.save() on a stored user, as in setUp's `admin_user.role = ...; save()`:
\* the row is rewritten and the signal saves the profile as it is
user_save(u) ==
    /\ u \in UserIds
    /\ profiles' = create_or_update_user_profile(u, FALSE)
    /\ last' = [NoCall EXCEPT !.op = "user_save",
                   !.user = Some([id |-> u, username |-> users[u].username])]
    /\ UNCHANGED <<users, issued, outstanding, blacklisted, nextJti, now, settings, places, mapbox, scraped_posts, scraped_places, presented>>

\* the duplicate checks that omit the e-mail
ExistingConflictNoEmail(username, email) ==
    IF UsersNamed(username) # {} THEN "username" ELSE ""

\* the checks at the head of register and of create_admin_user: which of the
\* submitted username and e-mail an existing user already has, "" if neither
ExistingConflict(username, email) ==
    IF UsersNamed(username) # {} THEN "username"
    ELSE IF \E u \in UserIds : users[u].email = email THEN "email"
    ELSE ""

\* Mutation.register.  The writes are not in a transaction: when
\* profile.save() raises, the user and the profile the signal made stay.
register(input) ==
    IF ExistingConflict(input.username, input.email) = "username" THEN
        /\ last' = [NoCall EXCEPT !.op = "register", !.username = input.username,
                       !.email = input.email, !.role = input.role,
                       !.message = <<"Username already exists", "">>]
        /\ UNCHANGED <<users, profiles, issued, outstanding, blacklisted, nextJti,
                       now, settings, places, mapbox, scraped_posts, scraped_places, presented>>
    ELSE IF ExistingConflict(input.username, input.email) = "email" THEN
        /\ last' = [NoCall EXCEPT !.op = "register", !.username = input.username,
                       !.email = input.email, !.role = input.role,
                       !.message = <<"Email already exists", "">>]
        /\ UNCHANGED <<users, profiles, issued, outstanding, blacklisted, nextJti,
                       now, settings, places, mapbox, scraped_posts, scraped_places, presented>>
    ELSE LET err == CreateUserError(input.username)
             created == create_or_update_user_profile(NextUserId, TRUE)
         IN  /\ err = "" => NextUserId <= MaxUsers
             /\ IF err # "" THEN
                    /\ UNCHANGED <<users, profiles>>
                    /\ last' = [NoCall EXCEPT !.op = "register",
                                   !.username = input.username, !.email = input.email,
                                   !.role = input.role,
                                   !.message = <<"Registration failed", err>>]
                ELSE IF input.role = None THEN
                    /\ users' = UsersAfterCreate(input.username, input.email, input.password)
                    /\ profiles' = created
                    /\ last' = [NoCall EXCEPT !.op = "register",
                                   !.username = input.username, !.email = input.email,
                                   !.role = input.role,
                                   !.message = <<"Registration failed",
                                                 "null value in column \"role\" violates not-null constraint">>]
                ELSE
                    /\ users' = UsersAfterCreate(input.username, input.email, input.password)
                    /\ profiles' = [created EXCEPT ![NextUserId].role = input.role[1]]
                    /\ last' = [NoCall EXCEPT !.op = "register",
                                   !.username = input.username, !.email = input.email,
                                   !.role = input.role, !.success = TRUE,
                                   !.message = <<"User registered successfully", "">>,
                                   !.user = Some([id |-> NextUserId,
                                                  username |-> input.username])]
             /\ UNCHANGED <<issued, outstanding, blacklisted, nextJti, now, settings, places, mapbox, scraped_posts, scraped_places, presented>>

\* users.utils.create_admin_user, inside transaction.atomic(): when
\* create_user raises, nothing is written
create_admin_user(username, email, password) ==
    IF ExistingConflict(username, email) = "username" THEN
        /\ last' = [NoCall EXCEPT !.op = "create_admin_user", !.username = username,
                       !.email = email,
                       !.message = <<"User with username already exists", "">>]
        /\ UNCHANGED <<users, profiles, issued, outstanding, blacklisted, nextJti,
                       now, settings, places, mapbox, scraped_posts, scraped_places, presented>>
    ELSE IF ExistingConflict(username, email) = "email" THEN
        /\ last' = [NoCall EXCEPT !.op = "create_admin_user", !.username = username,
                       !.email = email,
                       !.message = <<"User with email already exists", "">>]
        /\ UNCHANGED <<users, profiles, issued, outstanding, blacklisted, nextJti,
                       now, settings, places, mapbox, scraped_posts, scraped_places, presented>>
    ELSE LET err == CreateUserError(username)
             created == create_or_update_user_profile(NextUserId, TRUE)
         IN  /\ err = "" => NextUserId <= MaxUsers
             /\ IF err # "" \/ NextUserId \notin DOMAIN created THEN
                    /\ UNCHANGED <<users, profiles>>
                    /\ last' = [NoCall EXCEPT !.op = "create_admin_user",
                                   !.username = username, !.email = email,
                                   !.message = <<"Failed to create admin user",
                                                 IF err # "" THEN err
                                                 ELSE "User has no profile.">>]
                ELSE
                    /\ users' = UsersAfterCreate(username, email, password)
                    /\ profiles' = [created EXCEPT ![NextUserId].role = ADMIN]
                    /\ last' = [NoCall EXCEPT !.op = "create_admin_user",
                                   !.username = username, !.email = email,
                                   !.success = TRUE,
                                   !.message = <<"Admin user created successfully", "">>,
                                   !.user = Some([id |-> NextUserId, username |-> username])]
             /\ UNCHANGED <<issued, outstanding, blacklisted, nextJti, now, settings, places, mapbox, scraped_posts, scraped_places, presented>>

\* ------------------------------------------------ promote / demote
Digits == {"0", "1", "2", "3", "4", "5", "6", "7", "8", "9"}

DigitValue(c) ==
    CASE c = "0" -> 0 [] c = "1" -> 1 [] c = "2" -> 2 [] c = "3" -> 3 [] c = "4" -> 4
      [] c = "5" -> 5 [] c = "6" -> 6 [] c = "7" -> 7 [] c = "8" -> 8 [] c = "9" -> 9

\* str.isdigit()
isdigit(str) == str # <<>> /\ \A i \in 1..Len(str) : str[i] \in Digits

\* the integer a string of digits is cast to by the id lookup
RECURSIVE ToInt(_)
ToInt(str) ==
    IF str = <<>> THEN 0
    ELSE 10 * ToInt(SubSeq(str, 1, Len(str) - 1)) + DigitValue(str[Len(str)])

\* the lookup at the head of promote_to_admin and demote_from_admin: an int
\* or a string of digits is a user id, any other string a username; the
\* result is the id of the user found, AnonymousUser for User.DoesNotExist
FindUser(identifier) ==
    IF identifier.isint \/ isdigit(identifier.str) THEN
        LET id == IF identifier.isint THEN identifier.int ELSE ToInt(identifier.str)
        IN  IF id \in UserIds THEN id ELSE AnonymousUser
    ELSE
        IF UsersNamed(identifier.str) = {} THEN AnonymousUser
        ELSE CHOOSE u \in UsersNamed(identifier.str) : TRUE

\* hasattr(user, 'profile') and user.profile.is_admin
HasAdminProfile(u) == u \in DOMAIN profiles /\ is_admin(profiles[u])

\* a promote_to_admin that does not look at the current role
promote_outcome_unchecked(u) ==
    IF u = AnonymousUser THEN "not found"
    ELSE IF u \notin DOMAIN profiles THEN "failed"
    ELSE "done"

\* which return statement of promote_to_admin is reached for the user found
promote_outcome(u) ==
    IF u = AnonymousUser THEN "not found"
    ELSE IF HasAdminProfile(u) THEN "already"
    ELSE IF u \notin DOMAIN profiles THEN "failed"
    ELSE "done"

\* users.utils.promote_to_admin
promote_to_admin(identifier) ==
    LET u == FindUser(identifier)
        out == promote_outcome(u)
    IN  /\ profiles' = IF out = "done" THEN [profiles EXCEPT ![u].role = ADMIN]
                       ELSE profiles
        /\ last' = [NoCall EXCEPT !.op = "promote_to_admin", !.identifier = identifier,
                       !.success = (out = "done"),
                       !.message = <<CASE out = "not found" -> "User not found with identifier"
                                       [] out = "already" -> "User is already an admin"
                                       [] out = "failed" -> "Failed to promote user to admin"
                                       [] out = "done" -> "User has been promoted to admin",
                                     "">>,
                       !.user = IF out \in {"already", "done"}
                                THEN Some([id |-> u, username |-> users[u].username])
                                ELSE None]
        /\ UNCHANGED <<users, issued, outstanding, blacklisted, nextJti, now, settings, places, mapbox, scraped_posts, scraped_places, presented>>

\* a demote_from_admin that does not look at the current role
demote_outcome_unchecked(u) ==
    IF u = AnonymousUser THEN "not found"
    ELSE IF u \notin DOMAIN profiles THEN "not admin"
    ELSE "done"

\* which return statement of demote_from_admin is reached for the user found
demote_outcome(u) ==
    IF u = AnonymousUser THEN "not found"
    ELSE IF ~HasAdminProfile(u) THEN "not admin"
    ELSE "done"

\* users.utils.demote_from_admin
demote_from_admin(identifier) ==
    LET u == FindUser(identifier)
        out == demote_outcome(u)
    IN  /\ profiles' = IF out = "done" THEN [profiles EXCEPT ![u].role = FREEMIUM_USER]
                       ELSE profiles
        /\ last' = [NoCall EXCEPT !.op = "demote_from_admin", !.identifier = identifier,
                       !.success = (out = "done"),
                       !.message = <<CASE out = "not found" -> "User not found with identifier"
                                       [] out = "not admin" -> "User is not an admin"
                                       [] out = "done" -> "User has been demoted from admin",
                                     "">>,
                       !.user = IF out \in {"not admin", "done"}
                                THEN Some([id |-> u, username |-> users[u].username])
                                ELSE None]
        /\ UNCHANGED <<users, issued, outstanding, blacklisted, nextJti, now, settings, places, mapbox, scraped_posts, scraped_places, presented>>

\* users.utils.is_admin, for a stored user (is_authenticated is True)
utils_is_admin(u) == u # AnonymousUser /\ HasAdminProfile(u)

\* User.objects.filter(profile__role=UserRole.ADMIN), as a set of ids
AdminsQueryset == {u \in UserIds : u \in DOMAIN profiles /\ profiles[u].role = ADMIN}

\* users.utils.get_all_admins
get_all_admins ==
    /\ last' = [NoCall EXCEPT !.op = "get_all_admins",
                   !.list = Some({users[u].username : u \in AdminsQueryset})]
    /\ UNCHANGED <<users, profiles, issued, outstanding, blacklisted, nextJti, now,
                   settings, places, mapbox, scraped_posts, scraped_places, presented>>

\* ----------------------------------------------------------- inputs
digituser == <<"2">>
RegistrationUsernames == {testuser, digituser, <<>>}
Emails == {<<"test", "example.com">>, <<"admin", "example.com">>, <<"admin", "EXAMPLE.COM">>}
RegistrationRoles == {None, Some(FREEMIUM_USER), Some(ADMIN)}
RegistrationInputs ==
    [username : RegistrationUsernames, email : Emails,
     password : {"testpassword123"}, role : RegistrationRoles]

Identifiers ==
    {[isint |-> TRUE, int |-> n, str |-> <<>>] : n \in 1..(MaxUsers + 1)} \cup
    {[isint |-> FALSE, int |-> 0, str |-> name] : name \in RegistrationUsernames \cup {<<"1">>}}

\* ------------------------------------------------------ specification
\* an empty database; no token is involved
InitUsers ==
    /\ users = <<>>
    /\ profiles = <<>>
    /\ issued = {}
    /\ outstanding = {}
    /\ blacklisted = {}
    /\ nextJti = 1
    /\ now = 0
    /\ settings = [rotate |-> FALSE, blacklist |-> TRUE]
    /\ last = NoCall
    /\ scraped_posts = <<>>
    /\ scraped_places = <<>>
    /\ presented = <<>>
    /\ places = <<>>
    /\ mapbox = NoMapbox

NextUsers ==
    \/ \E username \in RegistrationUsernames, email \in Emails :
           create_user(username, email, "testpassword123")
    \/ \E u \in UserIds : user_save(u)
    \/ \E input \in RegistrationInputs : register(input)
    \/ \E username \in RegistrationUsernames, email \in Emails :
           create_admin_user(username, email, "adminpassword123")
    \/ \E identifier \in Identifiers : promote_to_admin(identifier)
    \/ \E identifier \in Identifiers : demote_from_admin(identifier)
    \/ get_all_admins

SpecUsers == InitUsers /\ [][NextUsers]_vars

\* ====================================================================
\* Properties of user management (specification SpecUsers)
\* ====================================================================

\* no stored user has the username, and none has the e-mail as submitted
Unused(username, email) ==
    /\ \A u \in UserIds : users[u].username # username
    /\ \A u \in UserIds : users[u].email # email

\* the step adds exactly one user n, with the given username and e-mail
\* (its domain in lower case) and a profile, and leaves the other rows alone
AddsUser(n, username, email) ==
    /\ n \notin UserIds
    /\ DOMAIN users' = UserIds \cup {n}
    /\ \A u \in UserIds : users'[u] = users[u]
    /\ users'[n].username = username
    /\ users'[n].email = normalize_email(email)
    /\ DOMAIN profiles' = DOMAIN profiles \cup {n}
    /\ \A u \in DOMAIN profiles : profiles'[u] = profiles[u]

\* C11: register with a (non-empty) username and an e-mail that no existing
\* user has creates exactly one new user with that username and e-mail,
\* together with its profile, and returns success=true with user.username
\* equal to the submitted username.
C11_RegisterCreatesUser ==
    [][ (/\ last'.op = "register"
         /\ last'.username # <<>>
         /\ Unused(last'.username, last'.email))
        => /\ last'.success
           /\ last'.user # None
           /\ last'.user[1].username = last'.username
           /\ AddsUser(last'.user[1].id, last'.username, last'.email) ]_vars

\* C12: register with a username an existing user has returns success=false
\* with 'Username already exists'; with a free username but an e-mail an
\* existing user has it returns success=false with 'Email already exists';
\* in both cases the users and the profiles are unchanged.
C12_RegisterRejectsDuplicates ==
    [][ last'.op = "register" =>
          LET nameTaken == \E u \in UserIds : users[u].username = last'.username
              emailTaken == \E u \in UserIds : users[u].email = last'.email
          IN  /\ nameTaken =>
                    /\ ~last'.success
                    /\ last'.message = <<"Username already exists", "">>
                    /\ users' = users /\ profiles' = profiles
              /\ (~nameTaken /\ emailTaken) =>
                    /\ ~last'.success
                    /\ last'.message = <<"Email already exists", "">>
                    /\ users' = users /\ profiles' = profiles ]_vars

\* a registration under a new username was refused for its e-mail
C12_Witness ==
    /\ last.op = "register"
    /\ UsersNamed(last.username) = {}
    /\ \E u \in UserIds : users[u].email = last.email
    /\ ~last.success
    /\ last.message = <<"Email already exists", "">>

\* C13: after any sequence of user creations and saves every User has
\* exactly one UserProfile; the profile the post_save signal creates has
\* role freemium_user, and creating or saving users changes no existing role.
C13_OneProfilePerUser ==
    [][ /\ DOMAIN profiles' = DOMAIN users'
        /\ (last'.op = "create_user" /\ last'.success)
               => profiles'[last'.user[1].id].role = FREEMIUM_USER
        /\ last'.op \in {"create_user", "user_save"}
               => \A u \in DOMAIN profiles : profiles'[u] = profiles[u] ]_vars

\* a user the signal gave a profile has been saved again and is still freemium
C13_Witness ==
    /\ last.op = "user_save"
    /\ DOMAIN profiles = DOMAIN users
    /\ profiles[last.user[1].id].role = FREEMIUM_USER

\* C14: create_admin_user returns (user, True, message) with the new user's
\* profile role admin when neither the username nor the e-mail is in use
\* (and creation does not raise, which it does for an empty username); it
\* returns (None, False, message) and writes nothing when the username or
\* the e-mail exists or when creation raises.
C14_CreateAdminUser ==
    [][ last'.op = "create_admin_user" =>
          LET creates == Unused(last'.username, last'.email) /\ last'.username # <<>>
          IN  /\ creates =>
                    /\ last'.success
                    /\ last'.user # None
                    /\ AddsUser(last'.user[1].id, last'.username, last'.email)
                    /\ profiles'[last'.user[1].id].role = ADMIN
              /\ ~creates =>
                    /\ ~last'.success
                    /\ last'.user = None
                    /\ users' = users /\ profiles' = profiles ]_vars

\* an admin has been created
C14_Witness ==
    /\ last.op = "create_admin_user"
    /\ last.success
    /\ profiles[last.user[1].id].role = ADMIN
    /\ users[last.user[1].id].username = last.username

\* C15: promote_to_admin on an existing user who is not admin sets that
\* user's profile role to admin and returns success True; on a user who is
\* already admin it returns (user, False, message) and changes nothing; on
\* an identifier that matches no user it returns (None, False, message) and
\* changes nothing.  The user a call is on is the one its lookup finds.
C15_PromoteToAdmin ==
    [][ last'.op = "promote_to_admin" =>
          LET u == FindUser(last'.identifier)
          IN  /\ users' = users
              /\ (u # AnonymousUser /\ profiles[u].role # ADMIN) =>
                    /\ last'.success
                    /\ last'.user = Some([id |-> u, username |-> users[u].username])
                    /\ profiles' = [profiles EXCEPT ![u].role = ADMIN]
              /\ (u # AnonymousUser /\ profiles[u].role = ADMIN) =>
                    /\ ~last'.success
                    /\ last'.user = Some([id |-> u, username |-> users[u].username])
                    /\ profiles' = profiles
              /\ u = AnonymousUser =>
                    /\ ~last'.success
                    /\ last'.user = None
                    /\ profiles' = profiles ]_vars

\* a freemium user has been promoted
C15_Witness ==
    /\ last.op = "promote_to_admin"
    /\ last.success
    /\ profiles[last.user[1].id].role = ADMIN

\* C16: demote_from_admin right after a successful promote_to_admin of the
\* same user succeeds and leaves that user's role freemium_user;
\* demote_from_admin on a user who is not admin returns success False and
\* changes nothing; get_all_admins returns exactly the users for whom
\* is_admin is true.
C16_PromoteDemote ==
    [][ /\ last'.op = "demote_from_admin" =>
             LET u == FindUser(last'.identifier)
             IN  /\ users' = users
                 /\ (/\ last.op = "promote_to_admin" /\ last.success
                     /\ u = last.user[1].id) =>
                        /\ last'.success
                        /\ profiles' = [profiles EXCEPT ![u].role = FREEMIUM_USER]
                 /\ (u # AnonymousUser /\ profiles[u].role # ADMIN) =>
                        /\ ~last'.success
                        /\ profiles' = profiles
        /\ last'.op = "get_all_admins" =>
             last'.list = Some({users[u].username : u \in {v \in UserIds : utils_is_admin(v)}}) ]_vars

\* the user promoted in the step before has been demoted again
C16_Witness ==
    /\ last.op = "demote_from_admin"
    /\ last.success
    /\ profiles[last.user[1].id].role = FREEMIUM_USER

\* ====================================================================
\* common.models.CreatedUpdatedModel and place.models.Place
\* ====================================================================
MaxPlaces == 2

\* the clock advances in steps of the 0.1 s the tests sleep and tolerate
Tolerance == 1

PlaceNames == {"Park", "Zoo"}

\* how far the clock can move between the two reads of one save
ClockDrift == {0, 1}

\* a created_at declared with auto_now instead of auto_now_add
pre_save_created_at_auto_now(add, old, clock) == clock

\* DateTimeField(auto_now_add=True).pre_save: the clock on insert only
pre_save_created_at(add, old, clock) == IF add THEN clock ELSE old

\* an updated_at declared with auto_now_add instead of auto_now
pre_save_updated_at_auto_now_add(add, old, clock) == IF add THEN clock ELSE old

\* DateTimeField(auto_now=True).pre_save: the clock on every save
pre_save_updated_at(add, old, clock) == clock

\* Place(...).save() of a new record; created_at is stamped first, then
\* updated_at from a second reading of the clock
place_create(name, drift) ==
    /\ Len(places) < MaxPlaces
    /\ now + drift <= MaxTime
    /\ places' = Append(places,
                        [name |-> name,
                         created_at |-> pre_save_created_at(TRUE, 0, now),
                         updated_at |-> pre_save_updated_at(TRUE, 0, now + drift)])
    /\ now' = now + drift
    /\ last' = [NoCall EXCEPT !.op = "place_create", !.id = Len(places) + 1]
    /\ UNCHANGED <<users, profiles, issued, outstanding, blacklisted, nextJti,
                   settings, mapbox, scraped_posts, scraped_places, presented>>

\* PlaceAdmin.save_model / place.save() of a stored record; the form cannot
\* carry the two read-only stamps
place_save(id, name, drift) ==
    /\ id \in DOMAIN places
    /\ now + drift <= MaxTime
    /\ places' = [places EXCEPT
                    ![id] = [name |-> name,
                             created_at |-> pre_save_created_at(FALSE, places[id].created_at, now),
                             updated_at |-> pre_save_updated_at(FALSE, places[id].updated_at,
                                                                now + drift)]]
    /\ now' = now + drift
    /\ last' = [NoCall EXCEPT !.op = "place_save", !.id = id]
    /\ UNCHANGED <<users, profiles, issued, outstanding, blacklisted, nextJti,
                   settings, mapbox, scraped_posts, scraped_places, presented>>

\* the place table is empty, or holds a row that migration 0003 stamped
MigratedPlaces == {<<>>, <<[name |-> "Park", created_at |-> 0, updated_at |-> 0]>>}

InitPlace ==
    /\ users = <<>>
    /\ profiles = <<>>
    /\ issued = {}
    /\ outstanding = {}
    /\ blacklisted = {}
    /\ nextJti = 1
    /\ now = 0
    /\ settings = [rotate |-> FALSE, blacklist |-> TRUE]
    /\ last = NoCall
    /\ scraped_posts = <<>>
    /\ scraped_places = <<>>
    /\ presented = <<>>
    /\ places \in MigratedPlaces
    /\ mapbox = NoMapbox

NextPlace ==
    \/ \E name \in PlaceNames, drift \in ClockDrift : place_create(name, drift)
    \/ \E id \in 1..MaxPlaces, name \in PlaceNames, drift \in ClockDrift :
           place_save(id, name, drift)
    \/ Tick

SpecPlace == InitPlace /\ [][NextPlace]_vars

\* C17: the created_at of a record is set when the record is first created
\* (to the time of that save) and no later save of the record changes it.
C17_CreatedAtFrozen ==
    [][ /\ last'.op = "place_create" => places'[last'.id].created_at = now
        /\ \A id \in DOMAIN places : places'[id].created_at = places[id].created_at ]_vars

\* a record created earlier has been saved again at a later time
C17_Witness ==
    /\ last.op = "place_save"
    /\ places[last.id].created_at < places[last.id].updated_at
    /\ places[last.id].created_at > 0

\* C18: a save of an existing record at a time later than its updated_at
\* sets updated_at strictly greater than before; created_at <= updated_at
\* for every record in every state; right after creation the two differ by
\* no more than the tolerance.
C18_UpdatedAtAdvances ==
    [][ /\ \A id \in DOMAIN places :
               (last'.op = "place_save" /\ last'.id = id /\ now > places[id].updated_at)
                   => places'[id].updated_at > places[id].updated_at
        /\ \A id \in DOMAIN places' : places'[id].created_at <= places'[id].updated_at
        /\ last'.op = "place_create" =>
               places'[last'.id].updated_at - places'[last'.id].created_at <= Tolerance ]_vars

\* a record has been saved after the clock moved on: updated_at is now
\* later than the creation stamp
C18_Witness ==
    /\ last.op = "place_save"
    /\ places[last.id].updated_at = now
    /\ places[last.id].updated_at > places[last.id].created_at

\* ====================================================================
\* common.geocoding
\* ====================================================================
\* django.contrib.gis.geos.Point(x, y)
Point(x, y) == [x |-> x, y |-> y]

\* a Python string or None that an "if" takes as true
Truthy(str) == str # None /\ str[1] # ""

\* the two ways a call ends: "return point, data" and "raise"
Return(point, data) == [raised |-> "", point |-> point, response_data |-> data]
Raise(exception) == [raised |-> exception, point |-> None, response_data |-> None]

\* geocode_address; the request meets mapbox.answer: an exception of
\* requests.get, raise_for_status or response.json, or a decoded body
geocode_address(street, zip_code, city, place_name, country_code) ==
    IF ~mapbox.api_key THEN Raise("ValueError")
    ELSE LET address_parts ==
                 (IF Truthy(place_name) THEN <<place_name[1]>> ELSE <<>>) \o
                 (IF Truthy(city) THEN <<city[1]>> ELSE <<>>)
             data == mapbox.answer.data
         IN  IF address_parts = <<>> THEN Return(None, None)
             ELSE IF mapbox.answer.kind # "json" THEN Return(None, None)
             ELSE IF ~data.haskey \/ data.features = <<>> THEN Return(None, Some(data))
             ELSE LET coordinates == data.features[1]
                  IN  IF Len(coordinates) # 2 THEN Return(None, None)
                      ELSE Return(Some(Point(coordinates[1], coordinates[2])), Some(data))

\* a caller geocodes a place by name and city
geocode(place_name, city) ==
    /\ LET result == geocode_address(None, None, city, place_name, "us")
       IN  last' = [NoCall EXCEPT !.op = "geocode_address",
                                  !.place_name = place_name, !.city = city,
                                  !.raised = result.raised, !.point = result.point,
                                  !.response_data = result.response_data]
    /\ UNCHANGED <<users, profiles, issued, outstanding, blacklisted, nextJti, now,
                   settings, places, mapbox, scraped_posts, scraped_places, presented>>

\* [longitude, latitude] pairs, and coordinate lists of the wrong length
Austin == <<-97, 30>>
Paris == <<2, 48>>
FeatureLists == {<<>>, <<Austin>>, <<Austin, Paris>>, <<Paris, Austin>>, <<<<2>>>>}

MapboxAnswers ==
    {[kind |-> k, data |-> [haskey |-> FALSE, features |-> <<>>]] :
         k \in {"ConnectionError", "HTTPError", "JSONDecodeError", "json"}}
    \cup {[kind |-> "json", data |-> [haskey |-> TRUE, features |-> f]] : f \in FeatureLists}

GeocodeNames == {None, Some(""), Some("Park")}
GeocodeCities == {None, Some(""), Some("Austin")}

InitGeo ==
    /\ users = <<>>
    /\ profiles = <<>>
    /\ issued = {}
    /\ outstanding = {}
    /\ blacklisted = {}
    /\ nextJti = 1
    /\ now = 0
    /\ settings = [rotate |-> FALSE, blacklist |-> TRUE]
    /\ last = NoCall
    /\ scraped_posts = <<>>
    /\ scraped_places = <<>>
    /\ presented = <<>>
    /\ places = <<>>
    /\ mapbox \in [api_key : BOOLEAN, answer : MapboxAnswers]

NextGeo ==
    \/ \E place_name \in GeocodeNames, city \in GeocodeCities : geocode(place_name, city)

SpecGeo == InitGeo /\ [][NextGeo]_vars

\* C19: with the API key configured, geocode_address returns (None, None)
\* whenever geocoding fails, that is when neither place_name nor city is
\* given, when the request or the parsing of the response raises, and when
\* the API returns no features; it returns a Point only when the API
\* returned at least one feature, and the Point is built from the first
\* feature's [longitude, latitude].
C19_GeocodeFailure ==
    (last.op = "geocode_address" /\ mapbox.api_key) =>
        LET nothingGiven == ~Truthy(last.place_name) /\ ~Truthy(last.city)
            raises == mapbox.answer.kind # "json"
            features == IF mapbox.answer.data.haskey THEN mapbox.answer.data.features
                        ELSE <<>>
        IN  /\ (nothingGiven \/ raises \/ features = <<>>) =>
                   /\ last.raised = ""
                   /\ last.point = None
                   /\ last.response_data = None
            /\ last.point # None =>
                   /\ ~raises
                   /\ features # <<>>
                   /\ last.point[1].x = features[1][1]
                   /\ last.point[1].y = features[1][2]

\* ====================================================================
\* auth_api.middleware.JWTAuthMiddleware
\* ====================================================================
\* JWTAuthentication.get_user(validated_token): the detail of the
\* AuthenticationFailed it raises, "" when it returns the user
GetUserError(tok) ==
    IF tok.uid \notin UserIds THEN "User not found"
    ELSE IF ~users[tok.uid].is_active THEN "User is inactive"
    ELSE ""

\* JWTAuthMiddleware.get_validated_token: None for a header that does not
\* start with 'Bearer ', else JWTAuthentication.get_validated_token, which
\* parses the raw token as an AccessToken and raises InvalidToken
get_validated_token(request) ==
    LET auth_header == request.authorization
    IN  IF auth_header = None \/ auth_header[1].scheme # "Bearer"
        THEN [token |-> None, raised |-> ""]
        ELSE IF TokenError(auth_header[1].token, "access") # ""
        THEN [token |-> None, raised |-> "InvalidToken"]
        ELSE [token |-> Some(auth_header[1].token), raised |-> ""]

\* JWTAuthMiddleware.__call__: InvalidToken and TokenError are swallowed,
\* the AuthenticationFailed of get_user is not; last.id is request.user
\* when the call ends
JWTAuthMiddleware(request) ==
    LET validated == IF request.authorization # None THEN get_validated_token(request)
                     ELSE [token |-> None, raised |-> ""]
        failure == IF validated.token # None THEN GetUserError(validated.token[1]) ELSE ""
    IN  /\ last' = [NoCall EXCEPT
                      !.op = "JWTAuthMiddleware", !.request = request,
                      !.id = IF validated.token # None /\ failure = ""
                             THEN validated.token[1].uid ELSE request.user,
                      !.raised = IF failure # "" THEN "AuthenticationFailed" ELSE "",
                      !.message = <<"", failure>>]
        /\ UNCHANGED <<users, profiles, issued, outstanding, blacklisted, nextJti, now,
                       settings, places, mapbox, scraped_posts, scraped_places, presented>>

\* UserAdmin: a staff member deletes a user; the profile goes with it and
\* the user's outstanding-token rows keep a null user
UserAdminDelete(u) ==
    /\ u \in UserIds
    /\ users' = [v \in UserIds \ {u} |-> users[v]]
    /\ profiles' = [v \in DOMAIN profiles \ {u} |-> profiles[v]]
    /\ outstanding' = {IF o.user = u THEN [o EXCEPT !.user = AnonymousUser] ELSE o :
                         o \in outstanding}
    /\ last' = NoCall
    /\ UNCHANGED <<issued, blacklisted, nextJti, now, settings, places, mapbox, scraped_posts, scraped_places, presented>>

\* Authorization headers, with and without the Bearer scheme
MiddlewareHeaders ==
    AuthorizationHeaders \cup {Some([scheme |-> "Basic", token |-> t]) : t \in TokenStrings}

MiddlewareRequests == [authorization : MiddlewareHeaders, user : SessionUsers]

\* a view wired as the class docstring shows, serving clients that log in
NextMiddleware ==
    \/ \E username \in Usernames, password \in Passwords : login(username, password)
    \/ \E request \in MiddlewareRequests : JWTAuthMiddleware(request)
    \/ Tick
    \/ \E u \in 1..2, active \in BOOLEAN : UserAdminSave(u, active)
    \/ \E u \in 1..2 : UserAdminDelete(u)

SpecMiddleware == Init /\ [][NextMiddleware]_vars

\* C20: for a request that arrives without a session user, the middleware
\* returns a context without raising and leaves request.user AnonymousUser
\* whenever the Authorization header is missing, does not start with
\* 'Bearer ', or carries a token that fails validation or cannot be resolved
\* to a user; it sets request.user to the token's user only when the token
\* validates.
C20_MiddlewareNeverRaises ==
    (last.op = "JWTAuthMiddleware" /\ last.request.user = AnonymousUser) =>
        LET header == last.request.authorization
            validates == /\ header # None
                         /\ header[1].scheme = "Bearer"
                         /\ header[1].token \in issued
                         /\ header[1].token.typ = "access"
                         /\ header[1].token.exp > now
            resolves == validates /\ header[1].token.uid \in UserIds
        IN  /\ ~resolves => (last.raised = "" /\ last.id = AnonymousUser)
            /\ last.id # AnonymousUser => (validates /\ last.id = header[1].token.uid)

\* ====================================================================
\* Identifiers of promote_to_admin and demote_from_admin (SpecUsers)
\* ====================================================================

\* C21: promote_to_admin and demote_from_admin called with a string
\* identifier act on the user whose username equals that string, for every
\* username including those made up only of digits (only an int identifier
\* is looked up by id): with no such user they return (None, False, ...)
\* and change nothing, otherwise they return that user and change no other
\* user's profile.
C21_StringIdentifierIsUsername ==
    [][ (/\ last'.op \in {"promote_to_admin", "demote_from_admin"}
         /\ ~last'.identifier.isint)
        => LET named == UsersNamed(last'.identifier.str)
           IN  /\ named = {} =>
                     /\ ~last'.success
                     /\ last'.user = None
                     /\ profiles' = profiles
               /\ named # {} =>
                     /\ last'.user # None
                     /\ last'.user[1].id \in named
                     /\ \A u \in DOMAIN profiles \ named : profiles'[u] = profiles[u] ]_vars

\* ====================================================================
\* scraping.admin.ScrapedPlaceAdmin: the review queue
\* ====================================================================
MaxScraped == 3

\* place names in the ascending order of order_by("name")
ScrapedNames == <<"Aquapark", "Castle", "Zoo">>

NameIndex(name) == CHOOSE i \in DOMAIN ScrapedNames : ScrapedNames[i] = name

\* ScrapedPlace.objects.filter(processed=False)
Unprocessed == {p \in DOMAIN scraped_places : ~scraped_places[p].processed}

\* a queue that leaves out order_by("name")
FirstUnprocessedUnordered == Unprocessed

\* .order_by("name").first(): the rows the database may return first;
\* among rows of equal name the order is the database's choice
FirstUnprocessed ==
    {p \in Unprocessed :
        \A q \in Unprocessed :
            NameIndex(scraped_places[p].name) <= NameIndex(scraped_places[q].name)}

\* ScrapedPlaceAdmin.review_view; place_id is None for the URL review/
review_view(place_id) ==
    /\ IF place_id # None THEN
           IF place_id[1] \in DOMAIN scraped_places THEN
               /\ last' = [NoCall EXCEPT !.op = "review_view", !.id = place_id[1],
                                         !.status = 200]
               /\ presented' = Append(presented, place_id[1])
           ELSE
               /\ last' = [NoCall EXCEPT !.op = "review_view", !.status = 404]
               /\ presented' = presented
       ELSE IF FirstUnprocessed = {} THEN
           /\ last' = [NoCall EXCEPT !.op = "review_view", !.status = 302,
                                     !.location = "admin:scraping_scrapedplace_changelist",
                                     !.message = <<"No unprocessed places found.", "">>]
           /\ presented' = presented
       ELSE \E place \in FirstUnprocessed :
           /\ last' = [NoCall EXCEPT !.op = "review_view", !.id = place, !.status = 200]
           /\ presented' = Append(presented, place)
    /\ UNCHANGED <<users, profiles, issued, outstanding, blacklisted, nextJti, now,
                   settings, places, mapbox, scraped_posts, scraped_places>>

\* ScrapedPlaceAdmin.mark_processed
mark_processed(place_id) ==
    /\ IF place_id \in DOMAIN scraped_places THEN
           /\ scraped_places' = [scraped_places EXCEPT ![place_id].processed = TRUE]
           /\ last' = [NoCall EXCEPT !.op = "mark_processed", !.id = place_id,
                                     !.status = 302,
                                     !.location = "admin:scraping_scrapedplace_review",
                                     !.message = <<"Place marked as processed.", "">>]
       ELSE
           /\ scraped_places' = scraped_places
           /\ last' = [NoCall EXCEPT !.op = "mark_processed", !.id = place_id,
                                     !.status = 404]
    /\ UNCHANGED <<users, profiles, issued, outstanding, blacklisted, nextJti, now,
                   settings, places, mapbox, scraped_posts, presented>>

\* the finite tables an import can have left: rows in any order of name,
\* processed or not
RECURSIVE SeqsUpTo(_, _)
SeqsUpTo(S, n) ==
    IF n = 0 THEN {<<>>}
    ELSE LET shorter == SeqsUpTo(S, n - 1)
         IN  shorter \cup {Append(q, x) : q \in shorter, x \in S}

ScrapedPlaceRows ==
    [name : {ScrapedNames[i] : i \in DOMAIN ScrapedNames}, processed : BOOLEAN, post : {0}]

InitReview ==
    /\ users = <<>>
    /\ profiles = <<>>
    /\ issued = {}
    /\ outstanding = {}
    /\ blacklisted = {}
    /\ nextJti = 1
    /\ now = 0
    /\ settings = [rotate |-> FALSE, blacklist |-> TRUE]
    /\ last = NoCall
    /\ places = <<>>
    /\ mapbox = NoMapbox
    /\ scraped_posts = <<>>
    /\ scraped_places \in SeqsUpTo(ScrapedPlaceRows, MaxScraped)
    /\ presented = <<>>

\* the reviewer opens review/ and pushes "mark processed" on the place
\* shown, whose redirect opens review/ again, until the changelist comes
NextReview ==
    \/ /\ last.op # "review_view"
       /\ review_view(None)
    \/ /\ last.op = "review_view" /\ last.status = 200
       /\ mark_processed(last.id)

SpecReview == InitReview /\ [][NextReview]_vars

\* the reviewer keeps going
LiveSpecReview == SpecReview /\ WF_vars(NextReview)

\* C22: with a finite table and no import running, opening review/ and
\* marking the shown place processed, repeatedly, presents unprocessed
\* places only, none twice, in ascending order of name; only the place shown
\* becomes processed, so none is passed over; no step sets processed back to
\* False; and the loop ends with the 'No unprocessed places found' redirect
\* to the changelist, when no unprocessed place is left.
C22_ReviewQueue ==
    /\ [][ /\ \A p \in DOMAIN scraped_places :
                  /\ scraped_places[p].processed => scraped_places'[p].processed
                  /\ (~scraped_places[p].processed /\ scraped_places'[p].processed)
                         => (last.op = "review_view" /\ last.id = p /\ presented # <<>>
                             /\ presented[Len(presented)] = p)
           /\ (last'.op = "review_view" /\ last'.status = 200)
                  => /\ ~scraped_places[last'.id].processed
                     /\ presented' = Append(presented, last'.id) ]_vars
    /\ [](/\ \A i, j \in DOMAIN presented :
                 /\ i < j => presented[i] # presented[j]
                 /\ i < j => NameIndex(scraped_places[presented[i]].name)
                                 <= NameIndex(scraped_places[presented[j]].name)
          /\ (last.op = "review_view" /\ last.status = 302)
                 => /\ Unprocessed = {}
                    /\ last.location = "admin:scraping_scrapedplace_changelist"
                    /\ last.message = <<"No unprocessed places found.", "">>)
    /\ <>(last.op = "review_view" /\ last.status = 302)

\* the queue has been worked off: two places were presented, then the redirect
C22_Witness ==
    /\ last.op = "review_view"
    /\ last.status = 302
    /\ Len(presented) >= 2
    /\ Unprocessed = {}

\* ====================================================================
\* scraping.admin.ScrapedPlaceAdmin.save_as_place
\* ====================================================================
\* Place.PlaceType
PlaceType ==
    {"PLAYGROUND", "INDOOR_PLAYGROUND", "KINDERGARTEN", "CAFE", "RESTAURANT", "SHOP",
     "AMUSEMENT_PARK", "MUSEUM", "GALLERY", "ZOO", "AQUAPARK", "COMMUNITY_CENTER",
     "KIDS_PLAYROOM", "CASTLE", "HOTEL", "ATTRACTION", "NATURAL_ATTRACTION"}

\* Place.PlaceSeasonType
PlaceSeasonType == {"WINTER", "SUMMER", "ALL"}

\* the season and type strings a request body carries
SeasonInputs == {"Winter", "summer", "ALL", "spring"}
TypeInputs == {"zoo", "Cafe", "SPA"}

\* str.lower() and str.upper() on those strings
lower(str) ==
    CASE str = "Winter" -> "winter"
      [] str = "ALL" -> "all"
      [] OTHER -> str

upper(str) ==
    CASE str = "zoo" -> "ZOO"
      [] str = "Cafe" -> "CAFE"
      [] OTHER -> str

\* season_mapping.get(data.get('season', '').lower(), Place.PlaceSeasonType.ALL)
season_mapping(data) ==
    LET key == IF data.season = None THEN "" ELSE lower(data.season[1])
    IN  CASE key = "winter" -> "WINTER"
          [] key = "summer" -> "SUMMER"
          [] OTHER -> "ALL"

RECURSIVE SelectTypes(_, _)
SelectTypes(names, keep) ==
    IF names = <<>> THEN <<>>
    ELSE (IF keep THEN <<upper(names[1])>> ELSE
          IF upper(names[1]) \in PlaceType THEN <<upper(names[1])>> ELSE <<>>)
         \o SelectTypes(Tail(names), keep)

\* a type list that keeps every name, member of PlaceType or not
MappedTypesUnfiltered(data) ==
    IF data.types = None THEN <<>> ELSE SelectTypes(data.types[1], TRUE)

\* the loop over data['types']: the upper-cased names that PlaceType has
MappedTypes(data) ==
    IF data.types = None THEN <<>> ELSE SelectTypes(data.types[1], FALSE)

\* the first failure of a POST for an existing ScrapedPlace, "" if none:
\* json.loads, the lat/lon test, float(), and the unique scraped_id of
\* the OneToOneField when place.save() inserts
SaveAsPlaceError(data, place_id) ==
    IF ~data.json THEN "JSONDecodeError"
    ELSE IF data.lat = None \/ data.lon = None THEN "Latitude and longitude are required"
    ELSE IF ~data.lat[1].float \/ ~data.lon[1].float THEN "ValueError"
    ELSE IF \E p \in DOMAIN places : places[p].scraped_id = place_id THEN "IntegrityError"
    ELSE ""

\* ScrapedPlaceAdmin.save_as_place
save_as_place(request, place_id) ==
    LET data == request.body
        error == SaveAsPlaceError(data, place_id)
        answer(status, text) ==
            [NoCall EXCEPT !.op = "save_as_place", !.id = place_id,
                           !.body = Some(request), !.status = status,
                           !.success = (status = 200), !.message = <<text, "">>]
    IN  /\ IF request.method # "POST" THEN
               /\ last' = answer(405, "Only POST method is allowed")
               /\ places' = places
           ELSE IF place_id \notin DOMAIN scraped_places THEN
               /\ last' = answer(404, "Http404")
               /\ places' = places
           ELSE IF error = "Latitude and longitude are required" THEN
               /\ last' = answer(400, error)
               /\ places' = places
           ELSE IF error # "" THEN
               /\ last' = answer(500, error)
               /\ places' = places
           ELSE
               /\ last' = answer(200, "Place saved successfully")
               /\ places' = Append(places,
                     [name |-> IF data.name = None THEN "" ELSE data.name[1],
                      scraped_id |-> place_id,
                      type |-> MappedTypes(data),
                      location |-> Point(data.lon[1].value, data.lat[1].value),
                      season |-> season_mapping(data),
                      created_at |-> pre_save_created_at(TRUE, 0, now),
                      updated_at |-> pre_save_updated_at(TRUE, 0, now)])
        /\ UNCHANGED <<users, profiles, issued, outstanding, blacklisted, nextJti, now,
                       settings, mapbox, scraped_posts, scraped_places, presented>>

\* latitudes and longitudes as the body carries them: a number or not
NotANumber == [float |-> FALSE, value |-> 0]
Latitude == [float |-> TRUE, value |-> 50]
Longitude == [float |-> TRUE, value |-> 14]

\* request bodies: complete ones with every season and type list, and
\* broken ones: not JSON, lat or lon missing, lat not a number
SaveAsPlaceBodies ==
    [json : {TRUE}, lat : {Some(Latitude)}, lon : {Some(Longitude)},
     season : {None} \cup {Some(x) : x \in SeasonInputs},
     types : {None, Some(<<>>), Some(<<"zoo">>), Some(<<"SPA", "Cafe">>),
              Some(<<"Cafe", "SPA", "zoo">>)},
     name : {Some("Zoo Praha")}]
    \cup [json : {FALSE}, lat : {None}, lon : {None}, season : {None}, types : {None},
          name : {None}]
    \cup [json : {TRUE}, lat : {None, Some(NotANumber)}, lon : {Some(Longitude)},
          season : {Some("summer")}, types : {Some(<<"zoo">>)}, name : {Some("Zoo Praha")}]
    \cup [json : {TRUE}, lat : {Some(Latitude)}, lon : {None},
          season : {Some("summer")}, types : {Some(<<"zoo">>)}, name : {None}]

SaveAsPlaceRequests == [method : {"GET", "POST"}, body : SaveAsPlaceBodies]

\* two scraped places wait for review, no Place has been saved yet
InitSaveAsPlace ==
    /\ users = <<>>
    /\ profiles = <<>>
    /\ issued = {}
    /\ outstanding = {}
    /\ blacklisted = {}
    /\ nextJti = 1
    /\ now = 0
    /\ settings = [rotate |-> FALSE, blacklist |-> TRUE]
    /\ last = NoCall
    /\ places = <<>>
    /\ mapbox = NoMapbox
    /\ scraped_posts = <<>>
    /\ scraped_places = <<[name |-> "Zoo", processed |-> FALSE, post |-> 0],
                          [name |-> "Castle", processed |-> FALSE, post |-> 0]>>
    /\ presented = <<>>

NextSaveAsPlace ==
    \/ \E request \in SaveAsPlaceRequests, place_id \in 1..MaxScraped :
           save_as_place(request, place_id)

SpecSaveAsPlace == InitSaveAsPlace /\ [][NextSaveAsPlace]_vars

\* what the last save_as_place request carried
SaveBody == last'.body[1].body
LatLonMissing == SaveBody.json /\ (SaveBody.lat = None \/ SaveBody.lon = None)

\* a step of the body fails: the body is not JSON, lat or lon is not a
\* number, or the ScrapedPlace already has its one Place
OtherStepRaises ==
    \/ ~SaveBody.json
    \/ /\ ~LatLonMissing
       /\ \/ ~SaveBody.lat[1].float
          \/ ~SaveBody.lon[1].float
          \/ \E p \in DOMAIN places : places[p].scraped_id = last'.id

\* the step added exactly one Place, linked to the ScrapedPlace of the
\* request, with the season the body names (ALL when it names none of
\* winter, summer, all) and with the PlaceType members among its type names
CreatesLinkedPlace ==
    /\ last'.status = 200 /\ last'.success
    /\ Len(places') = Len(places) + 1
    /\ \A p \in DOMAIN places : places'[p] = places[p]
    /\ LET place == places'[Len(places')]
           season == IF SaveBody.season = None THEN "" ELSE lower(SaveBody.season[1])
           names == IF SaveBody.types = None THEN {}
                    ELSE {upper(SaveBody.types[1][i]) : i \in DOMAIN SaveBody.types[1]}
       IN  /\ place.scraped_id = last'.id
           /\ last'.id \in DOMAIN scraped_places
           /\ place.season \in PlaceSeasonType
           /\ season = "winter" => place.season = "WINTER"
           /\ season = "summer" => place.season = "SUMMER"
           /\ season \notin {"winter", "summer"} => place.season = "ALL"
           /\ {place.type[i] : i \in DOMAIN place.type} = names \cap PlaceType

\* C23 as stated: save_as_place creates no Place and returns an error
\* response when the method is not POST (405), when lat or lon is missing
\* from the body (400), or when any other step raises (500); a Place is
\* created only on the success response, linked to the given ScrapedPlace,
\* season ALL for an unknown season, non-member type names dropped.
C23_SaveAsPlaceErrors ==
    [][ last'.op = "save_as_place" =>
          /\ last'.body[1].method # "POST" => (last'.status = 405 /\ places' = places)
          /\ (last'.body[1].method = "POST" /\ LatLonMissing)
                 => (last'.status = 400 /\ places' = places)
          /\ (last'.body[1].method = "POST" /\ OtherStepRaises)
                 => (last'.status = 500 /\ places' = places)
          /\ places' # places => CreatesLinkedPlace ]_vars

\* C23 amended: the same for a request that names an existing ScrapedPlace;
\* a POST for an id that no ScrapedPlace has is answered 404 by
\* get_object_or_404, before the body is read, and creates no Place.
C23_SaveAsPlaceErrorsOfExistingPlace ==
    [][ last'.op = "save_as_place" =>
          LET post == last'.body[1].method = "POST"
              exists == last'.id \in DOMAIN scraped_places
          IN  /\ ~post => (last'.status = 405 /\ places' = places)
              /\ (post /\ ~exists) => (last'.status = 404 /\ places' = places)
              /\ (post /\ exists /\ LatLonMissing)
                     => (last'.status = 400 /\ places' = places)
              /\ (post /\ exists /\ OtherStepRaises)
                     => (last'.status = 500 /\ places' = places)
              /\ (post /\ exists /\ ~LatLonMissing /\ ~OtherStepRaises)
                     => CreatesLinkedPlace
              /\ places' # places => CreatesLinkedPlace ]_vars

\* a Place was saved for the second ScrapedPlace from a body with an unknown
\* season and a type name that PlaceType does not have
C23_Witness ==
    /\ last.op = "save_as_place"
    /\ last.status = 200
    /\ last.body[1].body.season = Some("spring")
    /\ last.body[1].body.types = Some(<<"SPA", "Cafe">>)
    /\ places[Len(places)].scraped_id = 2
    /\ places[Len(places)].season = "ALL"
    /\ places[Len(places)].type = <<"CAFE">>

\* ====================================================================
\* scraping.management.commands.import_jsonl
\* ====================================================================
MaxLines == 2

\* str() of the numeric ids in the files
str(n) ==
    CASE n = 101 -> "101"
      [] n = 102 -> "102"

\* str(data.get('id', ''))
ThirdPartyId(data) == IF data.id = None THEN "" ELSE str(data.id[1])

\* ScrapedPost.save(): original_created_at is a DateTimeField without
\* null=True and without a default, so a row without it is refused
ScrapedPostSaveError(post) ==
    IF post.original_created_at = None
    THEN "null value in column \"original_created_at\" violates not-null constraint"
    ELSE ""

\* ScrapedPost.objects.filter(third_party_id=...).first()
ExistingPost(posts, third_party_id) ==
    LET found == {i \in DOMAIN posts : posts[i].third_party_id = third_party_id}
    IN  IF found = {} THEN 0 ELSE CHOOSE i \in found : \A j \in found : i <= j

\* the ScrapedPlace rows of one line, all linked to the post
PlacesOfLine(names, post) ==
    [i \in DOMAIN names |-> [name |-> names[i], processed |-> FALSE, post |-> post]]

\* the loop over the lines of the file; run holds the two tables and the
\* four counters, and the exception text once a line has raised
RECURSIVE ImportLines(_, _)
ImportLines(lines, run) ==
    IF lines = <<>> \/ run.raised # "" THEN run
    ELSE LET data == lines[1]
             rest == Tail(lines)
         IN  IF ~data.json THEN [run EXCEPT !.raised = "JSONDecodeError"]
             ELSE IF data.places = None \/ data.places[1] = <<>> THEN
                 ImportLines(rest, [run EXCEPT !.skipped = @ + 1])
             ELSE LET third_party_id == ThirdPartyId(data)
                      existing_post == ExistingPost(run.posts, third_party_id)
                      post == [third_party_id |-> third_party_id,
                               original_created_at |-> None]
                  IN  IF existing_post # 0 THEN
                          ImportLines(rest,
                              [run EXCEPT
                                 !.duplicates = @ + 1,
                                 !.places = @ \o PlacesOfLine(data.places[1], existing_post),
                                 !.processed_places = @ + Len(data.places[1])])
                      ELSE IF ScrapedPostSaveError(post) # "" THEN
                          [run EXCEPT !.raised = ScrapedPostSaveError(post)]
                      ELSE
                          ImportLines(rest,
                              [run EXCEPT
                                 !.posts = Append(@, post),
                                 !.processed_posts = @ + 1,
                                 !.places = @ \o PlacesOfLine(data.places[1],
                                                               Len(run.posts) + 1),
                                 !.processed_places = @ + Len(data.places[1])])

\* Command.handle for an existing file; what was saved before a line
\* raised stays saved, and the run ends in CommandError
import_jsonl(lines) ==
    LET run == ImportLines(lines,
                   [posts |-> scraped_posts, places |-> scraped_places,
                    processed_posts |-> 0, processed_places |-> 0,
                    skipped |-> 0, duplicates |-> 0, raised |-> ""])
    IN  /\ Len(run.places) <= MaxScraped
        /\ scraped_posts' = run.posts
        /\ scraped_places' = run.places
        /\ last' = [NoCall EXCEPT
                      !.op = "import_jsonl",
                      !.body = Some(lines),
                      !.success = (run.raised = ""),
                      !.raised = IF run.raised = "" THEN "" ELSE "CommandError",
                      !.message = <<IF run.raised = "" THEN "Successfully imported"
                                    ELSE "Error importing data", run.raised>>,
                      !.counts = Some([processed_posts |-> run.processed_posts,
                                       processed_places |-> run.processed_places,
                                       skipped |-> run.skipped,
                                       duplicates |-> run.duplicates])]
        /\ UNCHANGED <<users, profiles, issued, outstanding, blacklisted, nextJti, now,
                       settings, places, mapbox, presented>>

\* the lines of a file: with and without id, with and without places
JsonLines ==
    [json : {TRUE}, id : {None, Some(101), Some(102)},
     places : {None, Some(<<>>), Some(<<"Zoo">>)}]

JsonlFiles == SeqsUpTo(JsonLines, MaxLines)

\* the post table is empty, or holds a post that was entered by hand in
\* the admin, with its original_created_at
InitImport ==
    /\ users = <<>>
    /\ profiles = <<>>
    /\ issued = {}
    /\ outstanding = {}
    /\ blacklisted = {}
    /\ nextJti = 1
    /\ now = 0
    /\ settings = [rotate |-> FALSE, blacklist |-> TRUE]
    /\ last = NoCall
    /\ places = <<>>
    /\ mapbox = NoMapbox
    /\ scraped_posts \in {<<>>, <<[third_party_id |-> "101", original_created_at |-> Some(0)]>>}
    /\ scraped_places = <<>>
    /\ presented = <<>>

NextImport ==
    \/ \E lines \in JsonlFiles : import_jsonl(lines)

SpecImport == InitImport /\ [][NextImport]_vars

\* the lines of the last import that are not skipped, and their ids
ImportedLines == {i \in DOMAIN last'.body[1] :
                     /\ last'.body[1][i].places # None
                     /\ last'.body[1][i].places[1] # <<>>}
ImportedIds == {ThirdPartyId(last'.body[1][i]) : i \in ImportedLines}
StoredIds == {scraped_posts[i].third_party_id : i \in DOMAIN scraped_posts}

\* C24: after an import_jsonl run there is at most one ScrapedPost per
\* third_party_id: the run succeeds, each id of a line with places that no
\* post had gets exactly one new post, lines whose id has a post count as
\* duplicates, lines without places count as skipped and create nothing, no
\* other post appears, and created posts + duplicates + skipped equals the
\* number of lines.
C24_ImportCreatesOnePostPerId ==
    [][ last'.op = "import_jsonl" =>
          LET posts == scraped_posts'
              counts == last'.counts[1]
              newIds == ImportedIds \ StoredIds
          IN  /\ \A i, j \in DOMAIN posts :
                     posts[i].third_party_id = posts[j].third_party_id => i = j
              /\ last'.success
              /\ {posts[i].third_party_id : i \in DOMAIN posts} = StoredIds \cup newIds
              /\ counts.processed_posts = Cardinality(newIds)
              /\ counts.duplicates = Cardinality(ImportedLines) - Cardinality(newIds)
              /\ counts.skipped = Len(last'.body[1]) - Cardinality(ImportedLines)
              /\ counts.processed_posts + counts.duplicates + counts.skipped
                     = Len(last'.body[1]) ]_vars

====
